---- MODULE Spec2Model ----
(***************************************************************************)
(* Model of lib/api.py: the retry-wrapped completion call                  *)
(* (get_openai_response / get_openai_response_chat), the legacy generation *)
(* call (get_palm_response) and the concurrent batch embedding retrieval   *)
(* (get_openai_embeddings / get_palm_embeddings).                          *)
(*                                                                         *)
(* The providers are stubs.  For the text calls the stub follows a script  *)
(* chosen in Init: its k-th call ends as script[k].  For the embedding     *)
(* calls the stub's outcome is chosen at every call.                       *)
(***************************************************************************)
EXTENDS Integers, Sequences, FiniteSets, TLC

\* ---------------------------------------------------------------- bounds
\* settings.API_RETRY_ATTEMPTS: external configuration, any value >= 1.
API_RETRY_ATTEMPTS == 3
\* Longest message list a caller passes to get_openai_response_chat.
MaxMsgs == 2
\* Longest input sequence of a batch embedding call.
MaxTexts == 2
\* Largest worker-pool size (n_jobs) of a batch embedding call.
MaxJobs == 2

\* Largest attempt number after which a text call still sleeps (the
\* configured attempt count is not bounded by the code).
MaxWaitAttempt == 8

\* stop_after_attempt(6) of get_single_embedding.
EMBED_ATTEMPTS == 6

\* ---------------------------------------------------------------- values
DefaultSystemText == "You are an expert taxonomy creator."

SystemTexts == {DefaultSystemText, "custom"}

Prompts == {"p1"}

CallerMessages == {[role |-> "user", content |-> "u"],
                   [role |-> "system", content |-> "s"]}

RECURSIVE SeqsUpTo(_, _)
SeqsUpTo(S, n) ==
    IF n = 0 THEN {<<>>}
    ELSE LET shorter == SeqsUpTo(S, n - 1)
         IN  shorter \cup {Append(s, x) : s \in {t \in shorter : Len(t) = n - 1}, x \in S}

\* The messages argument: a str or a list of dicts (isinstance decides).
MessagesArgs ==
    {[tag |-> "str", val |-> p] : p \in Prompts}
        \cup {[tag |-> "list", val |-> l] : l \in SeqsUpTo(CallerMessages, MaxMsgs)}

\* What one provider call of a text request can do: answer with content,
\* answer with null content, answer with an empty choices list, or raise.
ErrOutcomes == {"err1", "err2"}
Outcomes == {"ok", "null", "nochoices"} \cup ErrOutcomes

\* Exceptions are records; str(e) is msg.  Messages are tuples of strings.
Exc(type, msg) == [kind |-> "exc", type |-> type, msg |-> msg, value |-> "-"]
Value(v) == [kind |-> "value", type |-> "-", msg |-> <<>>, value |-> v]
NoOutcome == [kind |-> "none", type |-> "-", msg |-> <<>>, value |-> "-"]

Str(e) == e.msg

\* The exception the provider SDK raises for a failing call.
ProviderExc(outcome) == Exc("ProviderError", <<outcome>>)

\* str() of a tenacity.RetryError is
\* "RetryError[<Future at 0x.. state=finished raised T>]": it names the type
\* T of the last attempt's exception and not its message.

\* Input texts, embedding vectors, and what one provider embedding call can
\* do: answer with a vector or raise.
Texts == {"a", "b"}
Vecs == {"x", "y"}
EmbedErrs == {"err1"}
EmbedOutcomes == Vecs \cup EmbedErrs

APIErrorTypes == {"APIError", "OpenAIError"}

VARIABLES
    script,      \* text provider stub: outcome of its k-th call
    c_args,      \* get_openai_response_chat arguments [messages, system_message]
    c_pc,        \* position of the completion call
    c_conv,      \* the messages list passed to get_openai_response
    c_attempt,   \* tenacity attempt_number of get_openai_response
    c_calls,     \* openai.ChatCompletion.create calls made
    c_sent,      \* the conversation sent with each provider call
    c_log,       \* loguru records
    c_last,      \* exception of the last failed attempt
    c_out,       \* what the caller gets
    p_pc,        \* position of the legacy generation call
    p_attempt,   \* tenacity attempt_number of get_palm_response
    p_calls,     \* palm.generate_text calls made
    p_last,      \* exception of the last failed attempt
    p_out,       \* what the caller gets
    texts,       \* batch embedding call: the input sequence
    n_jobs,      \* worker-pool size
    m_pc,        \* position of the calling thread in the batch call
    submitted,   \* number of futures submitted so far
    t_state,     \* per future: new, queued, running, sleeping, done, failed
    t_attempt,   \* per future: tenacity attempt_number of get_single_embedding
    t_calls,     \* per future: provider embedding calls made
    t_last,      \* per future: exception of the last failed attempt
    t_out,       \* per future: its result or exception
    collected,   \* futures taken from as_completed, in the order taken
    lookup,      \* embeddings_lookup
    b_out,       \* what the caller of the batch call gets
    w_pc,        \* backoff wait computation: idle, draw, slept
    w_policy,    \* which decorated function waits
    w_attempt,   \* attempt_number of the attempt that just failed
    w_wait       \* the wait, in seconds

textVars == <<script, c_args, c_pc, c_conv, c_attempt, c_calls, c_sent, c_log,
              c_last, c_out, p_pc, p_attempt, p_calls, p_last, p_out>>

batchVars == <<texts, n_jobs, m_pc, submitted, t_state, t_attempt, t_calls, t_last,
               t_out, collected, lookup, b_out>>

waitVars == <<w_pc, w_policy, w_attempt, w_wait>>

vars == <<textVars, batchVars, waitVars>>

\* The stub keeps answering with its last scripted outcome.
OutcomeAt(k) == IF k \in DOMAIN script THEN script[k] ELSE script[Len(script)]

\* ------------------------------------------------------- tenacity policy
StopAfterAttemptOffByOne(attempt_number, max_attempt_number) ==
    attempt_number > max_attempt_number

StopAfterAttemptEarly(attempt_number, max_attempt_number) ==
    attempt_number + 1 >= max_attempt_number

\* stop_after_attempt(n): stop once attempt_number >= n.
StopAfterAttempt(attempt_number, max_attempt_number) ==
    attempt_number >= max_attempt_number

RetryErrorReraise(last) == last

\* tenacity without reraise=True: exhausting the attempts raises
\* RetryError(last_attempt).
RetryError(last) == Exc("RetryError", <<"RetryError", "Future", "raised", last.type>>)

\* api.py 48: stop_after_attempt(settings.API_RETRY_ATTEMPTS)
ChatMaxAttempts == API_RETRY_ATTEMPTS

PalmMaxAttemptsAsEmbed == EMBED_ATTEMPTS

\* api.py 142: stop_after_attempt(settings.API_RETRY_ATTEMPTS)
PalmMaxAttempts == API_RETRY_ATTEMPTS

\* ---------------------------------------------------------- backoff wait
Max(a, b) == IF a >= b THEN a ELSE b
Min(a, b) == IF a <= b THEN a ELSE b

RECURSIVE Pow2(_)
Pow2(n) == IF n = 0 THEN 1 ELSE 2 * Pow2(n - 1)

\* The wait_random_exponential(min=.., max=..) of each decorated function
\* (api.py 47, 141, 101 and 123); multiplier and exp_base are the defaults.
WaitPolicy(policy) ==
    IF policy = "embedding" THEN [min |-> 1, max |-> 20] ELSE [min |-> 1, max |-> 60]

WaitPolicies == {"completion", "legacy", "embedding"}

\* tenacity wait_exponential: max(max(0, min), min(multiplier * 2^(n-1), max)).
WaitExponentialHigh(policy, attempt_number) ==
    Max(Max(0, WaitPolicy(policy).min),
        Min(Pow2(attempt_number - 1), WaitPolicy(policy).max))

WaitRandomExponentialFromZero(policy, attempt_number) ==
    0..WaitExponentialHigh(policy, attempt_number)

\* tenacity wait_random_exponential: min + uniform(0, high - min), in whole
\* seconds.
WaitRandomExponential(policy, attempt_number) ==
    {WaitPolicy(policy).min + u :
        u \in 0..(WaitExponentialHigh(policy, attempt_number) - WaitPolicy(policy).min)}

\* Attempts after which the function sleeps: all but the last allowed one.
SleepingAttempts(policy) ==
    IF policy = "embedding" THEN 1..(EMBED_ATTEMPTS - 1) ELSE 1..MaxWaitAttempt

\* The wait before the next attempt is drawn.
DrawWait ==
    /\ w_pc = "draw"
    /\ w_wait' \in WaitRandomExponential(w_policy, w_attempt)
    /\ w_pc' = "slept"
    /\ UNCHANGED <<w_policy, w_attempt, textVars, batchVars>>

\* ---------------------------------------------------- completion (4.1)
BuildConversationNoSystem(messages, system_message) ==
    IF messages.tag = "str"
    THEN <<[role |-> "user", content |-> messages.val]>>
    ELSE messages.val

BuildConversationSystemLast(messages, system_message) ==
    LET sys == [role |-> "system", content |-> system_message]
    IN  IF messages.tag = "str"
        THEN <<sys, [role |-> "user", content |-> messages.val]>>
        ELSE messages.val \o <<sys>>

\* api.py 80-85
BuildConversation(messages, system_message) ==
    LET sys == [role |-> "system", content |-> system_message]
    IN  IF messages.tag = "str"
        THEN <<sys, [role |-> "user", content |-> messages.val]>>
        ELSE <<sys>> \o messages.val

GetOpenAIResponseBodyNullRaises(messages, outcome) ==
    IF outcome \in ErrOutcomes
    THEN LET e == ProviderExc(outcome)
         IN  [out  |-> Exc("OpenAIError", Str(e)),
              logs |-> <<[level |-> "error", tag |-> "OpenAI API Error", text |-> Str(e)],
                         [level |-> "info", tag |-> "Messages", text |-> <<>>]>>]
    ELSE IF outcome \in {"nochoices", "null"}
    THEN [out |-> Exc("IndexError", <<"list index out of range">>), logs |-> <<>>]
    ELSE [out |-> Value("text"), logs |-> <<>>]

\* api.py 85: [system_message] + messages builds a new list; the caller's
\* list object keeps its elements.
CallerListAfter(messages, system_message) == messages

\* Body of get_openai_response for one attempt: the attempt's outcome and
\* the records it logs.
GetOpenAIResponseBody(messages, outcome) ==
    IF outcome \in ErrOutcomes
    THEN LET e == ProviderExc(outcome)
         IN  [out  |-> Exc("OpenAIError", Str(e)),
              logs |-> <<[level |-> "error", tag |-> "OpenAI API Error", text |-> Str(e)],
                         [level |-> "info", tag |-> "Messages", text |-> <<>>]>>]
    ELSE IF outcome = "nochoices"
    THEN [out |-> Exc("IndexError", <<"list index out of range">>), logs |-> <<>>]
    ELSE [out |-> Value(IF outcome = "null" THEN "None" ELSE "text"), logs |-> <<>>]

ChatOnRetryErrorUncaught(e) ==
    [out |-> e, logs |-> <<>>]

\* api.py 90-92: except RetryError as e
ChatOnRetryError(e) ==
    [out  |-> Exc("APIError", Str(e)),
     logs |-> <<[level |-> "error", tag |-> "API Retry Error", text |-> Str(e)]>>]

ChatEnter ==
    /\ c_pc = "start"
    /\ c_conv' = BuildConversation(c_args.messages, c_args.system_message)
    /\ c_args' = [c_args EXCEPT
                     !.messages = CallerListAfter(c_args.messages, c_args.system_message)]
    /\ c_pc' = "attempt"
    /\ UNCHANGED <<script, c_attempt, c_calls, c_sent, c_log, c_last, c_out,
                   p_pc, p_attempt, p_calls, p_last, p_out, batchVars, waitVars>>

\* One attempt of get_openai_response and tenacity's decision after it.
ChatAttempt ==
    /\ c_pc = "attempt"
    /\ LET r == GetOpenAIResponseBody(c_conv, OutcomeAt(c_calls + 1))
       IN  /\ c_calls' = c_calls + 1
           /\ c_sent' = Append(c_sent, c_conv)
           /\ IF r.out.kind = "value"
              THEN /\ c_pc' = "returned"
                   /\ c_out' = r.out
                   /\ c_log' = c_log \o r.logs
                   /\ UNCHANGED c_last
              ELSE IF StopAfterAttempt(c_attempt, ChatMaxAttempts)
              THEN LET w == ChatOnRetryError(RetryError(r.out))
                   IN  /\ c_pc' = "raised"
                       /\ c_out' = w.out
                       /\ c_log' = c_log \o r.logs \o w.logs
                       /\ c_last' = r.out
              ELSE /\ c_pc' = "sleeping"
                   /\ c_last' = r.out
                   /\ c_log' = c_log \o r.logs
                   /\ UNCHANGED c_out
    /\ UNCHANGED <<script, c_args, c_conv, c_attempt, p_pc, p_attempt, p_calls, p_last,
                   p_out, batchVars, waitVars>>

\* The backoff sleep of wait_random_exponential ends; the next attempt starts.
ChatBackoff ==
    /\ c_pc = "sleeping"
    /\ c_attempt' = c_attempt + 1
    /\ c_pc' = "attempt"
    /\ UNCHANGED <<script, c_args, c_conv, c_calls, c_sent, c_log, c_last, c_out,
                   p_pc, p_attempt, p_calls, p_last, p_out, batchVars, waitVars>>

ChatDone == c_pc \in {"returned", "raised"}

\* ------------------------------------------- legacy generation (4.3)
\* Body of get_palm_response for one attempt: completion.result, or the
\* provider's exception.  A completion without candidates has result None.
GetPalmResponseBody(outcome) ==
    IF outcome \in ErrOutcomes
    THEN ProviderExc(outcome)
    ELSE Value(IF outcome = "ok" THEN "text" ELSE "None")

\* The synchronous caller makes the legacy call after the completion call,
\* against a provider failing in the same pattern.
PalmEnter ==
    /\ p_pc = "start"
    /\ ChatDone
    /\ p_pc' = "attempt"
    /\ UNCHANGED <<script, c_args, c_pc, c_conv, c_attempt, c_calls, c_sent, c_log,
                   c_last, c_out, p_attempt, p_calls, p_last, p_out, batchVars, waitVars>>

PalmAttempt ==
    /\ p_pc = "attempt"
    /\ LET r == GetPalmResponseBody(OutcomeAt(p_calls + 1))
       IN  /\ p_calls' = p_calls + 1
           /\ IF r.kind = "value"
              THEN /\ p_pc' = "returned"
                   /\ p_out' = r
                   /\ UNCHANGED p_last
              ELSE IF StopAfterAttempt(p_attempt, PalmMaxAttempts)
              THEN /\ p_pc' = "raised"
                   /\ p_out' = RetryError(r)
                   /\ p_last' = r
              ELSE /\ p_pc' = "sleeping"
                   /\ p_last' = r
                   /\ UNCHANGED p_out
    /\ UNCHANGED <<script, c_args, c_pc, c_conv, c_attempt, c_calls, c_sent, c_log,
                   c_last, c_out, p_attempt, batchVars, waitVars>>

PalmBackoff ==
    /\ p_pc = "sleeping"
    /\ p_attempt' = p_attempt + 1
    /\ p_pc' = "attempt"
    /\ UNCHANGED <<script, c_args, c_pc, c_conv, c_attempt, c_calls, c_sent, c_log,
                   c_last, c_out, p_calls, p_last, p_out, batchVars, waitVars>>

PalmDone == p_pc \in {"returned", "raised"}

\* ------------------------------------------- batch embeddings (4.2)
Indices == 1..Len(texts)

\* Futures whose task occupies a worker thread: in a provider call or in
\* tenacity's backoff sleep.
Busy == {i \in Indices : t_state[i] \in {"running", "sleeping"}}

Terminated(i) == t_state[i] \in {"done", "failed", "cancelled"}

WorkerFreeUnbounded == TRUE

\* ThreadPoolExecutor(max_workers=n_jobs): a work item is taken only by one
\* of at most n_jobs worker threads.
WorkerFree == Cardinality(Busy) < n_jobs

ShutdownCancelsQueued(st) ==
    [i \in DOMAIN st |-> IF st[i] = "queued" THEN "cancelled" ELSE st[i]]

\* Executor.__exit__ is shutdown(wait=True), cancel_futures left False:
\* pending work items stay in the queue.
ShutdownPending(st) == st

ShutdownNoWait == TRUE

\* shutdown(wait=True) joins the worker threads, which end when the work
\* queue is drained.
ShutdownWait == \A i \in Indices : Terminated(i)

StoreFirstWins(lk, i, v) ==
    [k \in DOMAIN lk \cup {texts[i]} |-> IF k \in DOMAIN lk THEN lk[k] ELSE v]

\* api.py 111: embeddings_lookup[futures[future]] = future.result()
Store(lk, i, v) ==
    [k \in DOMAIN lk \cup {texts[i]} |-> IF k = texts[i] THEN v ELSE lk[k]]

AssembleReversed(lk) == [k \in Indices |-> lk[texts[Len(texts) + 1 - k]]]

\* api.py 114: [embeddings_lookup[text] for text in texts]
Assemble(lk) == [k \in Indices |-> lk[texts[k]]]

\* api.py 108: the dict comprehension submits one future per element of
\* texts, in order.
SubmitTask ==
    /\ m_pc = "submit"
    /\ submitted < Len(texts)
    /\ submitted' = submitted + 1
    /\ t_state' = [t_state EXCEPT ![submitted + 1] = "queued"]
    /\ m_pc' = IF submitted + 1 = Len(texts) THEN "collect" ELSE "submit"
    /\ UNCHANGED <<waitVars, textVars, texts, n_jobs, t_attempt, t_calls, t_last, t_out,
                   collected, lookup, b_out>>

\* A worker thread takes the head of the executor's FIFO work queue.
WorkerStart(i) ==
    /\ t_state[i] = "queued"
    /\ \A j \in Indices : j < i => t_state[j] # "queued"
    /\ WorkerFree
    /\ t_state' = [t_state EXCEPT ![i] = "running"]
    /\ UNCHANGED <<waitVars, textVars, texts, n_jobs, m_pc, submitted, t_attempt, t_calls, t_last,
                   t_out, collected, lookup, b_out>>

\* Failed provider calls of future i so far.
Failures(i) == IF t_state[i] = "done" THEN t_calls[i] - 1 ELSE t_calls[i]

RECURSIVE TotalFailures(_)
TotalFailures(n) == IF n = 0 THEN 0 ELSE Failures(n) + TotalFailures(n - 1)

AttemptNumberShared(i) == TotalFailures(Len(texts)) + 1

\* Every call of the decorated get_single_embedding has its own retry state:
\* the attempt number the stop condition sees counts that call's attempts.
AttemptNumber(i) == t_attempt[i]

\* One attempt of get_single_embedding and tenacity's decision after it.
EmbedAttempt(i) ==
    /\ t_state[i] = "running"
    /\ t_calls' = [t_calls EXCEPT ![i] = @ + 1]
    /\ \E o \in EmbedOutcomes :
          IF o \in Vecs
          THEN /\ t_state' = [t_state EXCEPT ![i] = "done"]
               /\ t_out' = [t_out EXCEPT ![i] = Value(o)]
               /\ UNCHANGED t_last
          ELSE IF StopAfterAttempt(AttemptNumber(i), EMBED_ATTEMPTS)
          THEN /\ t_state' = [t_state EXCEPT ![i] = "failed"]
               /\ t_out' = [t_out EXCEPT ![i] = RetryError(ProviderExc(o))]
               /\ t_last' = [t_last EXCEPT ![i] = ProviderExc(o)]
          ELSE /\ t_state' = [t_state EXCEPT ![i] = "sleeping"]
               /\ t_last' = [t_last EXCEPT ![i] = ProviderExc(o)]
               /\ UNCHANGED t_out
    /\ UNCHANGED <<waitVars, textVars, texts, n_jobs, m_pc, submitted, t_attempt, collected,
                   lookup, b_out>>

EmbedBackoff(i) ==
    /\ t_state[i] = "sleeping"
    /\ t_attempt' = [t_attempt EXCEPT ![i] = @ + 1]
    /\ t_state' = [t_state EXCEPT ![i] = "running"]
    /\ UNCHANGED <<waitVars, textVars, texts, n_jobs, m_pc, submitted, t_calls, t_last, t_out,
                   collected, lookup, b_out>>

InCollected(i) == \E k \in DOMAIN collected : collected[k] = i

\* api.py 110-111: as_completed yields a finished future; future.result()
\* returns its value, which is stored, or raises its exception, which leaves
\* the loop and the with block.
Collect(i) ==
    /\ m_pc = "collect"
    /\ ~InCollected(i)
    /\ t_state[i] \in {"done", "failed"}
    /\ collected' = Append(collected, i)
    /\ IF t_state[i] = "done"
       THEN /\ lookup' = Store(lookup, i, t_out[i].value)
            /\ UNCHANGED <<m_pc, t_state, b_out>>
       ELSE /\ m_pc' = "unwind"
            /\ t_state' = ShutdownPending(t_state)
            /\ b_out' = [kind |-> "pending", exc |-> t_out[i], rows |-> <<>>]
            /\ UNCHANGED lookup
    /\ UNCHANGED <<waitVars, textVars, texts, n_jobs, submitted, t_attempt, t_calls, t_last, t_out>>

\* api.py 114, after the loop took every future and the executor shut down.
BatchReturn ==
    /\ m_pc = "collect"
    /\ Len(collected) = Len(texts)
    /\ ShutdownWait
    /\ m_pc' = "returned"
    /\ b_out' = [kind |-> "value", exc |-> NoOutcome, rows |-> Assemble(lookup)]
    /\ UNCHANGED <<waitVars, textVars, texts, n_jobs, submitted, t_state, t_attempt, t_calls,
                   t_last, t_out, collected, lookup>>

\* The exception leaves the with block once the executor has shut down.
BatchRaise ==
    /\ m_pc = "unwind"
    /\ ShutdownWait
    /\ m_pc' = "raised"
    /\ b_out' = [b_out EXCEPT !.kind = "exc"]
    /\ UNCHANGED <<waitVars, textVars, texts, n_jobs, submitted, t_state, t_attempt, t_calls,
                   t_last, t_out, collected, lookup>>

BatchDone == m_pc \in {"returned", "raised"}

\* ------------------------------------------------------------- system
InitText ==
    /\ script \in [1..API_RETRY_ATTEMPTS -> Outcomes]
    /\ c_args \in [messages : MessagesArgs, system_message : SystemTexts]
    /\ c_pc = "start"
    /\ c_conv = <<>>
    /\ c_attempt = 1
    /\ c_calls = 0
    /\ c_sent = <<>>
    /\ c_log = <<>>
    /\ c_last = NoOutcome
    /\ c_out = NoOutcome
    /\ p_pc = "start"
    /\ p_attempt = 1
    /\ p_calls = 0
    /\ p_last = NoOutcome
    /\ p_out = NoOutcome

\* The text calls of a program that makes none.
IdleText ==
    /\ script = [k \in 1..API_RETRY_ATTEMPTS |-> "ok"]
    /\ c_args = [messages |-> [tag |-> "str", val |-> "p1"],
                 system_message |-> DefaultSystemText]
    /\ c_pc = "idle"
    /\ c_conv = <<>>
    /\ c_attempt = 1
    /\ c_calls = 0
    /\ c_sent = <<>>
    /\ c_log = <<>>
    /\ c_last = NoOutcome
    /\ c_out = NoOutcome
    /\ p_pc = "idle"
    /\ p_attempt = 1
    /\ p_calls = 0
    /\ p_last = NoOutcome
    /\ p_out = NoOutcome

NoBatchOutcome == [kind |-> "none", exc |-> NoOutcome, rows |-> <<>>]

InitBatch ==
    /\ texts \in SeqsUpTo(Texts, MaxTexts)
    /\ n_jobs \in 1..MaxJobs
    /\ m_pc = IF Len(texts) = 0 THEN "collect" ELSE "submit"
    /\ submitted = 0
    /\ t_state = [i \in 1..Len(texts) |-> "new"]
    /\ t_attempt = [i \in 1..Len(texts) |-> 1]
    /\ t_calls = [i \in 1..Len(texts) |-> 0]
    /\ t_last = [i \in 1..Len(texts) |-> NoOutcome]
    /\ t_out = [i \in 1..Len(texts) |-> NoOutcome]
    /\ collected = <<>>
    /\ lookup = <<>>
    /\ b_out = NoBatchOutcome

\* The batch call of a program that makes none.
IdleBatch ==
    /\ texts = <<>>
    /\ n_jobs = 1
    /\ m_pc = "idle"
    /\ submitted = 0
    /\ t_state = <<>>
    /\ t_attempt = <<>>
    /\ t_calls = <<>>
    /\ t_last = <<>>
    /\ t_out = <<>>
    /\ collected = <<>>
    /\ lookup = <<>>
    /\ b_out = NoBatchOutcome

InitWait ==
    /\ w_pc = "draw"
    /\ w_policy \in WaitPolicies
    /\ w_attempt \in SleepingAttempts(w_policy)
    /\ w_wait = 0

IdleWait ==
    /\ w_pc = "idle"
    /\ w_policy = "completion"
    /\ w_attempt = 1
    /\ w_wait = 0

\* A caller makes the text calls or a batch embedding call; the backoff wait
\* of a failed attempt is looked at on its own.
Init ==
    \/ InitText /\ IdleBatch /\ IdleWait
    \/ IdleText /\ InitBatch /\ IdleWait
    \/ IdleText /\ IdleBatch /\ InitWait

NextText ==
    \/ ChatEnter
    \/ ChatAttempt
    \/ ChatBackoff
    \/ PalmEnter
    \/ PalmAttempt
    \/ PalmBackoff

NextBatch ==
    \/ SubmitTask
    \/ \E i \in Indices : WorkerStart(i)
    \/ \E i \in Indices : EmbedAttempt(i)
    \/ \E i \in Indices : EmbedBackoff(i)
    \/ \E i \in Indices : Collect(i)
    \/ BatchReturn
    \/ BatchRaise

Next == NextText \/ NextBatch \/ DrawWait

Spec == Init /\ [][Next]_vars

\* The text calls alone.  They are sequential code whose provider calls
\* return or raise and whose backoff sleeps end, so every enabled step is
\* eventually taken.
TextCalls == InitText /\ IdleBatch /\ IdleWait

FairText == TextCalls /\ [][NextText]_vars /\ WF_vars(NextText)

\* A batch embedding call alone.  Every provider call returns or raises,
\* every backoff sleep ends and the pool's threads and the calling thread
\* are scheduled, so a step that stays possible is eventually taken.
BatchCalls == IdleText /\ InitBatch /\ IdleWait

FairBatch == BatchCalls /\ [][NextBatch]_vars /\ WF_vars(NextBatch)

\* The backoff waits alone, for every policy and attempt number.
WaitCalls == IdleText /\ IdleBatch /\ InitWait

WaitSpec == WaitCalls /\ [][DrawWait]_vars

\* ================================================================ claims
Distinct(s) == \A i, j \in DOMAIN s : i # j => s[i] # s[j]

\* An attempt of a text call fails when the provider raises or answers with
\* an empty choices list.
AttemptFails(o) == o \in ErrOutcomes \cup {"nochoices"}

AllFail == \A k \in DOMAIN script : AttemptFails(script[k])

\* The provider fails on its first K calls and succeeds on call K+1.
Transient(K) ==
    /\ K + 1 \in DOMAIN script
    /\ \A k \in 1..K : AttemptFails(script[k])
    /\ ~AttemptFails(script[K + 1])

ContentOf(o) == IF o = "null" THEN "None" ELSE "text"

RetryLogs == {k \in DOMAIN c_log : c_log[k].tag = "API Retry Error"}

\* C1: a batch embedding call on N >= 1 distinct texts in which every task
\* succeeds returns (it does not raise), whatever the pool size and the order
\* of completion and collection, and it returns exactly N rows, row i being
\* the embedding the provider returned to the task of input i.
C1_RowsInInputOrder ==
    (Len(texts) >= 1 /\ Distinct(texts)) =>
        /\ (\A i \in Indices : t_state[i] = "done") => m_pc \notin {"unwind", "raised"}
        /\ m_pc = "returned" =>
              /\ b_out.kind = "value"
              /\ DOMAIN b_out.rows = 1..Len(texts)
              /\ \A i \in Indices : b_out.rows[i] = t_out[i].value

\* Two distinct texts, two workers, different embeddings, the second task
\* collected first and the first task retried.
C1_Witness ==
    /\ m_pc = "returned"
    /\ Len(texts) = 2 /\ Distinct(texts)
    /\ n_jobs = 2
    /\ collected = <<2, 1>>
    /\ t_calls[1] > 1
    /\ b_out.rows[1] # b_out.rows[2]

\* C2: a completion call whose every attempt fails never makes more than
\* API_RETRY_ATTEMPTS provider calls, ends raised after exactly that many,
\* with a typed API error, and the raise of the wrapper happened once.
C2_ExactlyMaxAttemptsThenTypedError ==
    (c_pc # "idle" /\ AllFail) =>
        /\ c_calls <= API_RETRY_ATTEMPTS
        /\ c_pc # "returned"
        /\ c_pc = "raised" =>
              /\ c_calls = API_RETRY_ATTEMPTS
              /\ c_out.kind = "exc"
              /\ c_out.type \in APIErrorTypes
              /\ Cardinality(RetryLogs) = 1
        /\ c_pc # "raised" => RetryLogs = {}

C2_Witness ==
    /\ AllFail
    /\ c_pc = "raised"
    /\ c_calls = API_RETRY_ATTEMPTS
    /\ c_attempt > 1

\* C3 (safety part): with K failures followed by a success, K < max
\* attempts, the call never makes more than K+1 provider calls, never raises,
\* and when it ends it has returned the content of call K+1.
C3_TransientSafety ==
    \A K \in 0..(API_RETRY_ATTEMPTS - 1) :
        (c_pc # "idle" /\ Transient(K)) =>
            /\ c_calls <= K + 1
            /\ c_pc # "raised"
            /\ c_pc = "returned" =>
                  /\ c_calls = K + 1
                  /\ c_out = Value(ContentOf(script[K + 1]))

\* C3: a completion call whose provider fails on the first K calls and
\* succeeds on call K+1, K < max attempts, eventually returns that result,
\* after exactly K+1 provider calls and without raising.
C3_TransientEventuallyReturns ==
    /\ []C3_TransientSafety
    /\ \A K \in 0..(API_RETRY_ATTEMPTS - 1) :
          (c_pc = "start" /\ Transient(K)) ~> (c_pc = "returned" /\ c_calls = K + 1)

\* The success comes on the last allowed attempt.
C3_Witness ==
    /\ Transient(API_RETRY_ATTEMPTS - 1)
    /\ API_RETRY_ATTEMPTS > 1
    /\ c_pc = "returned"
    /\ c_calls = API_RETRY_ATTEMPTS

\* C4: when the completion call exhausts its attempts, the caller gets an
\* OpenAIError whose message is the message of the last failed attempt.
C4_OpenAIErrorWithLastMessage ==
    c_pc = "raised" =>
        /\ c_out.type = "OpenAIError"
        /\ Str(c_out) = Str(c_last)

\* C5: whatever the provider does at each call (answer, null content, empty
\* choices, raise), the completion call ends by returning a value or by
\* raising APIError or a subclass; nothing else reaches the caller.
C5_OnlyTypedErrors ==
    /\ c_pc = "returned" => c_out.kind = "value"
    /\ c_pc = "raised" => (c_out.kind = "exc" /\ c_out.type \in APIErrorTypes)
    /\ c_pc \notin {"returned", "raised"} => c_out = NoOutcome

\* The last attempt ended in the IndexError of an empty choices list, an
\* earlier one in a provider exception.
C5_Witness ==
    /\ c_pc = "raised"
    /\ c_last.type = "IndexError"
    /\ \E k \in DOMAIN script : script[k] \in ErrOutcomes

\* C6 as claimed: when a fetch task exhausts its attempts, the batch call
\* ends by raising the provider's exception itself.
C6_RaisesProviderException ==
    m_pc = "raised" => b_out.exc.type = "ProviderError"

\* C6 amended: a fetch task that fails 6 times has made exactly 6 provider
\* calls; the batch call then never returns, and ends by raising tenacity's
\* RetryError built from that task's last provider exception (not the
\* provider exception, not a typed API error), with no result matrix.
C6_RaisesRetryError ==
    /\ \A i \in Indices :
          /\ t_calls[i] <= EMBED_ATTEMPTS
          /\ t_state[i] = "failed" =>
                /\ t_calls[i] = EMBED_ATTEMPTS
                /\ t_last[i].type = "ProviderError"
                /\ m_pc # "returned"
    /\ m_pc = "raised" =>
          /\ b_out.kind = "exc"
          /\ b_out.rows = <<>>
          /\ b_out.exc.type = "RetryError"
          /\ b_out.exc.type \notin APIErrorTypes
          /\ \E i \in Indices :
                /\ t_state[i] = "failed"
                /\ InCollected(i)
                /\ b_out.exc = RetryError(t_last[i])

\* The batch raised although another task's embedding was already stored.
C6_Witness ==
    /\ m_pc = "raised"
    /\ DOMAIN lookup # {}
    /\ \E i \in Indices : t_state[i] = "failed" /\ t_calls[i] = EMBED_ATTEMPTS

\* C7: at most n_jobs fetch tasks are in a provider call or a backoff sleep,
\* and one task is submitted per input position: never more than N, and all
\* N once submission is over.
C7_BoundedConcurrency ==
    /\ Cardinality(Busy) <= n_jobs
    /\ submitted <= Len(texts)
    /\ Cardinality({i \in Indices : t_state[i] # "new"}) = submitted
    /\ m_pc \in {"collect", "unwind", "returned", "raised"} => submitted = Len(texts)

\* The same text twice and one worker: the first task sleeps in backoff
\* while the second waits in the queue.
C7_Witness ==
    /\ Len(texts) = 2 /\ texts[1] = texts[2]
    /\ n_jobs = 1
    /\ submitted = 2
    /\ t_state[1] = "sleeping"
    /\ t_state[2] = "queued"

\* C8: a task's unrecoverable failure cancels no sibling: no task is ever
\* cancelled, and when the batch call ends by raising, every task has
\* succeeded or has used up its own 6 attempts.
C8_NoSiblingCancelled ==
    /\ \A i \in Indices : t_state[i] # "cancelled"
    /\ m_pc = "raised" =>
          \A i \in Indices :
              \/ t_state[i] = "done" /\ t_out[i].kind = "value"
              \/ t_state[i] = "failed" /\ t_calls[i] = EMBED_ATTEMPTS

\* One worker: the first task failed and was collected, and the second
\* task, which could only start after it, still ran to success.
C8_Witness ==
    /\ m_pc = "raised"
    /\ n_jobs = 1
    /\ Len(texts) = 2
    /\ collected = <<1>>
    /\ t_state[1] = "failed"
    /\ t_state[2] = "done"
    /\ t_calls[2] > 1

\* C9: with a single text prompt and the default system message, every
\* provider call of the completion call carries the same two messages: the
\* default system message, then the prompt as user message.
C9_TwoMessageConversation ==
    (c_args.messages.tag = "str" /\ c_args.system_message = DefaultSystemText) =>
        \A k \in DOMAIN c_sent :
            c_sent[k] = <<[role |-> "system", content |-> DefaultSystemText],
                          [role |-> "user", content |-> c_args.messages.val]>>

C9_Witness ==
    /\ c_args.messages.tag = "str"
    /\ c_args.system_message = DefaultSystemText
    /\ Len(c_sent) = API_RETRY_ATTEMPTS
    /\ Len(c_sent) > 1

\* Every provider call of the script raises or answers with choices.
NoEmptyChoices == \A k \in DOMAIN script : script[k] # "nochoices"

LastCollectedAt(t) ==
    LET ks == {k \in DOMAIN collected : texts[collected[k]] = t}
    IN  IF ks = {} THEN 0 ELSE CHOOSE k \in ks : \A j \in ks : j <= k

\* C11: one task runs per input position, also for a repeated text, and the
\* returned matrix has one row per position; every position holds the value
\* of the task collected last among the tasks of its text, so positions
\* sharing a text hold the same row.
C11_DuplicatesTakeLastCollected ==
    m_pc = "returned" =>
        /\ submitted = Len(texts)
        /\ \A i \in Indices : t_state[i] = "done" /\ t_calls[i] >= 1
        /\ DOMAIN b_out.rows = 1..Len(texts)
        /\ DOMAIN lookup = {texts[i] : i \in Indices}
        /\ \A i \in Indices :
              b_out.rows[i] = t_out[collected[LastCollectedAt(texts[i])]].value
        /\ \A i, j \in Indices : texts[i] = texts[j] => b_out.rows[i] = b_out.rows[j]

\* The same text twice, the two tasks got different embeddings, the task of
\* the first position was collected last: both rows are its value.
C11_Witness ==
    /\ m_pc = "returned"
    /\ Len(texts) = 2 /\ texts[1] = texts[2]
    /\ t_out[1].value # t_out[2].value
    /\ collected = <<2, 1>>
    /\ b_out.rows = <<t_out[1].value, t_out[1].value>>

\* Attempts of the completion call that ended in an exception.
FailedAttempts == IF c_pc = "returned" THEN c_calls - 1 ELSE c_calls

LogsTagged(tag) == {k \in DOMAIN c_log : c_log[k].tag = tag}

\* C12: on the completion path every failed attempt, malformed responses
\* included, leaves one record of the error and one of the message payload,
\* and a successful attempt leaves none: the per-attempt error records are
\* as many as the failed attempts.
C12_EveryFailedAttemptLogged ==
    /\ Cardinality(LogsTagged("OpenAI API Error")) = FailedAttempts
    /\ Cardinality(LogsTagged("Messages")) = FailedAttempts

\* C13: every fetch task has its own budget of 6 attempts: its attempt
\* number follows its own provider calls only, it is given up on only after
\* 6 failures of its own, and a batch in which no task fails more than 5
\* times does not raise, however many failures the tasks have in total.
C13_OwnRetryBudget ==
    /\ \A i \in Indices :
          /\ t_attempt[i] =
                t_calls[i] + (IF t_state[i] \in {"new", "queued", "running"} THEN 1 ELSE 0)
          /\ t_state[i] = "failed" => Failures(i) = EMBED_ATTEMPTS
          /\ t_state[i] # "failed" => Failures(i) < EMBED_ATTEMPTS
    /\ (\A i \in Indices : Failures(i) < EMBED_ATTEMPTS) => m_pc \notin {"unwind", "raised"}
    /\ m_pc = "raised" => \E i \in Indices : Failures(i) = EMBED_ATTEMPTS

\* Two tasks on two workers fail more than 6 times together, and the batch
\* returns.
C13_Witness ==
    /\ m_pc = "returned"
    /\ Len(texts) = 2
    /\ n_jobs = 2
    /\ Failures(1) >= 2 /\ Failures(2) >= 2
    /\ Failures(1) + Failures(2) > EMBED_ATTEMPTS

\* The stores into embeddings_lookup under key t made so far: one per
\* collected future of text t that had a result (api.py 111).
WritesTo(t) ==
    {k \in DOMAIN collected : texts[collected[k]] = t /\ t_state[collected[k]] = "done"}

\* C14: the result lookup has at most one writer per key: only the
\* collecting thread stores into it, and each key is stored at most once in
\* a batch call.
C14_KeyWrittenAtMostOnce ==
    /\ m_pc \in {"idle", "submit"} => lookup = <<>>
    /\ \A t \in Texts : Cardinality(WritesTo(t)) <= 1

\* C15: every backoff wait is non-negative and within [min, max] of its
\* policy: [1, 60] seconds for the completion and the legacy generation
\* call, [1, 20] seconds for an embedding fetch, for every attempt number.
C15_WaitWithinBounds ==
    w_pc = "slept" =>
        /\ w_wait >= 0
        /\ w_policy \in {"completion", "legacy"} => (1 <= w_wait /\ w_wait <= 60)
        /\ w_policy = "embedding" => (1 <= w_wait /\ w_wait <= 20)

\* A late attempt of the completion call, where 2^(n-1) exceeds the cap:
\* the wait drawn is the cap itself.
C15_Witness ==
    /\ w_pc = "slept"
    /\ w_policy = "completion"
    /\ Pow2(w_attempt - 1) > 60
    /\ w_wait = 60

\* C16: a provider answer whose content is null is a success: when it comes
\* on the first call, the completion call returns None after that single
\* call, without sleeping, logging or raising; when it comes after K failed
\* attempts, the call returns None after K+1 calls and that attempt logs
\* nothing.
C16_NullContentReturned ==
    /\ (c_pc # "idle" /\ script[1] = "null") =>
          /\ c_pc \in {"start", "attempt", "returned"}
          /\ c_calls <= 1
          /\ c_log = <<>>
          /\ c_pc = "returned" => (c_calls = 1 /\ c_out = Value("None"))
    /\ \A K \in 0..(API_RETRY_ATTEMPTS - 1) :
          (Transient(K) /\ script[K + 1] = "null" /\ c_pc = "returned") =>
              /\ c_out = Value("None")
              /\ c_calls = K + 1
              /\ Len(c_log) = 2 * Cardinality({k \in 1..K : script[k] \in ErrOutcomes})

C16_Witness ==
    /\ script[1] = "null"
    /\ c_pc = "returned"
    /\ c_calls = 1
    /\ c_out = Value("None")

\* C17: a batch embedding call gives control back, by returning or by
\* raising, only when every task it submitted has ended: no task of an ended
\* call is unsubmitted, queued, running or sleeping.
C17_EndsAfterAllTasks ==
    BatchDone =>
        /\ submitted = Len(texts)
        /\ \A i \in Indices : t_state[i] \in {"done", "failed"}

\* The failure of the first task ended the loop; the second task, never
\* collected, has used up its own attempts before the call raised.
C17_Witness ==
    /\ m_pc = "raised"
    /\ n_jobs = 2
    /\ Len(texts) = 2
    /\ collected = <<1>>
    /\ t_state[2] = "failed"

RECURSIVE CallsUpTo(_)
CallsUpTo(n) == IF n = 0 THEN 0 ELSE t_calls[n] + CallsUpTo(n - 1)

\* Provider embedding calls made by the batch call so far.
TotalCalls == CallsUpTo(Len(texts))

\* C18: with provider calls that return or raise and fair scheduling, a
\* batch embedding call on N texts ends, whatever the provider's failures,
\* having made at least N and at most 6*N provider calls.
C18_TerminatesWithinCallBudget ==
    /\ <>BatchDone
    /\ [](TotalCalls <= EMBED_ATTEMPTS * Len(texts))
    /\ [](BatchDone => Len(texts) <= TotalCalls)

\* Both tasks of a two-text call used every attempt.
C18_Witness ==
    /\ m_pc = "raised"
    /\ Len(texts) = 2
    /\ TotalCalls = EMBED_ATTEMPTS * 2

\* What get_openai_response_chat has passed on so far: the list built at
\* entry and the conversation of every provider call.
PassedOn == (IF c_pc \in {"idle", "start"} THEN {} ELSE {c_conv})
                \cup {c_sent[k] : k \in DOMAIN c_sent}

\* C19: called with a list of M messages, get_openai_response_chat sends
\* M+1 messages at every provider call: the system message built from
\* system_message, then the caller's M messages in their order, also for the
\* empty list and for a list that starts with a system message; the caller's
\* list is never modified.
C19_SystemMessagePrepended ==
    /\ [](c_args.messages.tag = "list" =>
            \A conv \in PassedOn :
                /\ Len(conv) = Len(c_args.messages.val) + 1
                /\ conv[1] = [role |-> "system", content |-> c_args.system_message]
                /\ \A k \in DOMAIN c_args.messages.val : conv[k + 1] = c_args.messages.val[k])
    /\ [][c_args' = c_args]_vars

\* A list of two different messages, the first of role system, sent twice.
C19_Witness ==
    /\ c_args.messages.tag = "list"
    /\ Len(c_args.messages.val) = 2
    /\ c_args.messages.val[1].role = "system"
    /\ c_args.messages.val[2].role = "user"
    /\ Len(c_sent) >= 2

====
